---------------------------- MODULE Spec2Model ----------------------------
(***************************************************************************)
(* A model of the playchess board core: the 10x12 mailbox board, its       *)
(* per-piece position lists, the incrementally maintained position hash,   *)
(* the pseudo-move generator, make_move / unmake_move, legal_moves and the *)
(* FEN codec.                                                              *)
(*                                                                         *)
(* The model follows the build with DEBUG defined: a failed ASSERT ends    *)
(* the process (assert.h), which the model records in the board's `fault`  *)
(* field; no operation runs on a board whose fault is set.                 *)
(***************************************************************************)
EXTENDS Integers, Sequences, FiniteSets, TLC

(***************************************************************************)
(* Squares (square.hpp is not part of the sources at hand; the encoding is *)
(* the one the specification gives: A1 = 21, H1 = 28, A8 = 91, H8 = 98).   *)
(***************************************************************************)
INVALID_SQUARE == 0

A1 == 21
B1 == 22
C1 == 23
D1 == 24
E1 == 25
F1 == 26
G1 == 27
H1 == 28
A8 == 91
E8 == 95
H8 == 98

RANK_1 == 0
RANK_2 == 1
RANK_3 == 2
RANK_6 == 5
RANK_7 == 6
RANK_8 == 7

NumCells == 120

Cells == 0 .. (NumCells - 1)

valid_square(sq) == sq >= A1 /\ sq <= H8 /\ sq % 10 >= 1 /\ sq % 10 <= 8

ValidSquares == {sq \in Cells : valid_square(sq)}

get_square_row(sq) == (sq \div 10) - 2

get_square_120_rc(row, col) == A1 + 10 * row + col

(***************************************************************************)
(* Pieces (piece.hpp): low bits are the species, bit 3 is the colour, so   *)
(* piece ^ 8 is the same species of the other side.                        *)
(***************************************************************************)
WHITE == 0
BLACK == 1
INVALID_SIDE == 2

INVALID_PIECE == 0
WHITE_PAWN == 1
WHITE_KNIGHT == 2
WHITE_BISHOP == 3
WHITE_ROOK == 4
WHITE_QUEEN == 5
WHITE_KING == 6
BLACK_PAWN == 9
BLACK_KNIGHT == 10
BLACK_BISHOP == 11
BLACK_ROOK == 12
BLACK_QUEEN == 13
BLACK_KING == 14

NumPieceIds == 16

PieceIds == 0 .. (NumPieceIds - 1)

MAX_PIECE_FREQ == 10

valid_piece(p) == (p >= WHITE_PAWN /\ p <= WHITE_KING) \/ (p >= BLACK_PAWN /\ p <= BLACK_KING)

ValidPieces == {p \in PieceIds : valid_piece(p)}

get_side(p) == (p \div 8) % 2

\* piece ^ 8u
flip_side(p) == IF (p \div 8) % 2 = 1 THEN p - 8 ELSE p + 8

species(p) == p % 8

is_pawn(p) == species(p) = WHITE_PAWN

is_king(p) == species(p) = WHITE_KING

is_diag(p) == species(p) = WHITE_BISHOP \/ species(p) = WHITE_QUEEN

is_ortho(p) == species(p) = WHITE_ROOK \/ species(p) = WHITE_QUEEN

\* a king or a rook: the pieces whose leaving home loses a castle right
is_castle(p) == species(p) = WHITE_KING \/ species(p) = WHITE_ROOK

opposite_colours(a, b) == get_side(a) # get_side(b)

PieceChars == <<"P", "N", "B", "R", "Q", "K", "?", "?", "p", "n", "b", "r", "q", "k">>

char_from_piece(p) == PieceChars[p]

piece_from_char(c) ==
  IF \E p \in ValidPieces : PieceChars[p] = c
    THEN CHOOSE p \in ValidPieces : PieceChars[p] = c
    ELSE INVALID_PIECE

(***************************************************************************)
(* Castle rights (castle_state.h): a 4-bit mask.                           *)
(***************************************************************************)
WHITE_SHORT == 1
WHITE_LONG == 2
BLACK_SHORT == 4
BLACK_LONG == 8

has_right(state, bit) == (state \div bit) % 2 = 1

\* state | bit
with_right(state, bit) == IF has_right(state, bit) THEN state ELSE state + bit

\* state & ~bit
without_right(state, bit) == IF has_right(state, bit) THEN state - bit ELSE state

(***************************************************************************)
(* Hash tables (hash.hpp).  The tables hold random 64-bit constants and    *)
(* the position hash is an XOR of table entries.  The model takes the      *)
(* non-zero entries to be independent generators: a hash value is the set  *)
(* of entries that occur in it an odd number of times, and XOR is the      *)
(* symmetric difference.  Two hashes that agree here agree for every       *)
(* choice of the constants.                                                *)
(***************************************************************************)
hash_xor(a, b) == (a \ b) \cup (b \ a)

piece_hash(sq, p) == IF valid_square(sq) /\ valid_piece(p) THEN {<<"piece", sq, p>>} ELSE {}

castle_hash(state) == {<<"castle", state>>}

enpas_hash(sq) == IF sq = INVALID_SQUARE THEN {} ELSE {<<"enpas", sq>>}

side_hash == {<<"side">>}

(***************************************************************************)
(* Moves (move.hpp): the six fields of an encoded move.                    *)
(***************************************************************************)
QUIET_MOVE == 0
DOUBLE_PAWN_MOVE == 1
CAPTURE_MOVE == 2
EN_PASSANT_MOVE == 3
SHORT_CASTLE_MOVE == 4
LONG_CASTLE_MOVE == 5
PROMOTE_MOVE == 6
PROMOTE_CAPTURE_MOVE == 7

mk_move(from, to, moved, captured, promoted, flag) ==
  [from |-> from, to |-> to, moved |-> moved, captured |-> captured,
   promoted |-> promoted, flag |-> flag]

quiet_move(from, to, moved) == mk_move(from, to, moved, INVALID_PIECE, INVALID_PIECE, QUIET_MOVE)

double_move(from, to, moved) == mk_move(from, to, moved, INVALID_PIECE, INVALID_PIECE, DOUBLE_PAWN_MOVE)

capture_move(from, to, moved, captured) ==
  mk_move(from, to, moved, captured, INVALID_PIECE, CAPTURE_MOVE)

en_passant_move(from, to, moved) ==
  mk_move(from, to, moved, flip_side(moved), INVALID_PIECE, EN_PASSANT_MOVE)

castle_move(from, to, moved, flag) == mk_move(from, to, moved, INVALID_PIECE, INVALID_PIECE, flag)

promote_move(from, to, moved, promoted) ==
  mk_move(from, to, moved, INVALID_PIECE, promoted, PROMOTE_MOVE)

promote_capture_move(from, to, moved, promoted, captured) ==
  mk_move(from, to, moved, captured, promoted, PROMOTE_CAPTURE_MOVE)

move_flag(m) == m.flag

move_from(m) == m.from

move_to(m) == m.to

moved_piece(m) == m.moved

captured_piece(m) == m.captured

promoted_piece(m) == m.promoted

move_promoted(m) == m.flag = PROMOTE_MOVE \/ m.flag = PROMOTE_CAPTURE_MOVE

move_captured(m) ==
  m.flag = CAPTURE_MOVE \/ m.flag = EN_PASSANT_MOVE \/ m.flag = PROMOTE_CAPTURE_MOVE

move_castled(m) == m.flag = SHORT_CASTLE_MOVE \/ m.flag = LONG_CASTLE_MOVE

(***************************************************************************)
(* The board: a record of the fields of class Board.                       *)
(*   pieces           m_pieces, one piece id per mailbox cell              *)
(*   positions        m_positions: per piece id, the entries in use,       *)
(*                    m_positions[p][0 .. m_num_pieces[p]); the code reads *)
(*                    no entry past the count (index i of the code is      *)
(*                    index i + 1 here)                                    *)
(*   num_pieces       m_num_pieces                                         *)
(*   fault            "none", or the kind of failure that ended the run    *)
(***************************************************************************)
\* a failed check that goes unnoticed
fail_unnoticed(b, kind) == b

fail(b, kind) == IF b.fault = "none" THEN [b EXCEPT !.fault = kind] ELSE b

\* std::find(piece_list.begin(), piece_list.begin() + n, sq): the first index
\* holding sq, or n + 1 (last_idx) when there is none
find_square(list, n, sq) ==
  IF \E i \in 1 .. n : list[i] = sq
    THEN CHOOSE i \in 1 .. n : list[i] = sq /\ \A j \in 1 .. (i - 1) : list[j] # sq
    ELSE n + 1

\* remove_piece without the swap: the count drops, the entry stays where it is
remove_piece_drops_last(b, sq) ==
  LET piece == b.pieces[sq]
      n == b.num_pieces[piece]
      list == b.positions[piece]
      this_idx == find_square(list, n, sq)
  IN  IF b.fault # "none" THEN b
      ELSE IF ~valid_piece(piece) THEN fail(b, "assert")
      ELSE IF this_idx = n + 1 THEN fail([b EXCEPT !.pieces[sq] = INVALID_PIECE], "assert")
      ELSE [b EXCEPT !.pieces[sq] = INVALID_PIECE,
                     !.num_pieces[piece] = n - 1,
                     !.positions[piece] = SubSeq(list, 1, n - 1),
                     !.hash = hash_xor(b.hash, piece_hash(sq, piece))]

remove_piece(b, sq) ==
  LET piece == b.pieces[sq]
      n == b.num_pieces[piece]
      list == b.positions[piece]
      this_idx == find_square(list, n, sq)
  IN  IF b.fault # "none" THEN b
      ELSE IF ~valid_piece(piece) THEN fail(b, "assert")
      ELSE IF this_idx = n + 1 THEN fail([b EXCEPT !.pieces[sq] = INVALID_PIECE], "assert")
      ELSE [b EXCEPT !.pieces[sq] = INVALID_PIECE,
                     !.num_pieces[piece] = n - 1,
                     !.positions[piece] = [i \in 1 .. (n - 1) |-> IF i = this_idx THEN list[n] ELSE list[i]],
                     !.hash = hash_xor(b.hash, piece_hash(sq, piece))]

add_piece(b, sq, piece) ==
  LET n == b.num_pieces[piece]
  IN  IF b.fault # "none" THEN b
      ELSE IF ~valid_piece(piece) THEN fail(b, "assert")
      ELSE IF b.pieces[sq] # INVALID_PIECE THEN fail(b, "assert")
      ELSE IF n >= MAX_PIECE_FREQ THEN fail([b EXCEPT !.pieces[sq] = piece], "overflow")
      ELSE [b EXCEPT !.pieces[sq] = piece,
                     !.positions[piece] = Append(b.positions[piece], sq),
                     !.num_pieces[piece] = n + 1,
                     !.hash = hash_xor(b.hash, piece_hash(sq, piece))]

set_castle_state(b, state) ==
  IF b.fault # "none" THEN b
  ELSE [b EXCEPT !.hash = hash_xor(b.hash, hash_xor(castle_hash(b.castle_state), castle_hash(state))),
                 !.castle_state = state]

\* set_en_passant that leaves the field and the hash as they are
set_en_passant_ignored(b, sq) == b

\* set_en_passant that records the square one rank further up the board
set_en_passant_next_rank(b, sq) ==
  IF b.fault # "none" THEN b
  ELSE IF sq = INVALID_SQUARE
    THEN [b EXCEPT !.hash = hash_xor(b.hash, hash_xor(enpas_hash(b.en_passant), enpas_hash(sq))),
                   !.en_passant = sq]
  ELSE [b EXCEPT !.hash = hash_xor(b.hash, hash_xor(enpas_hash(b.en_passant), enpas_hash(sq + 10))),
                 !.en_passant = sq + 10]

set_en_passant(b, sq) ==
  IF b.fault # "none" THEN b
  ELSE [b EXCEPT !.hash = hash_xor(b.hash, hash_xor(enpas_hash(b.en_passant), enpas_hash(sq))),
                 !.en_passant = sq]

move_piece(b, from, to) ==
  LET piece == b.pieces[from]
      n == b.num_pieces[piece]
      list == b.positions[piece]
      this_idx == find_square(list, n, from)
  IN  IF b.fault # "none" THEN b
      ELSE IF b.pieces[to] # INVALID_PIECE THEN fail(b, "assert")
      ELSE IF this_idx = n + 1
        THEN fail([b EXCEPT !.pieces[from] = INVALID_PIECE, !.pieces[to] = piece], "assert")
      ELSE [b EXCEPT !.pieces[from] = INVALID_PIECE,
                     !.pieces[to] = piece,
                     !.positions[piece][this_idx] = to,
                     !.hash = hash_xor(b.hash, hash_xor(piece_hash(from, piece), piece_hash(to, piece)))]

\* update_castling that writes m_castle_state and leaves m_hash alone
update_castling_keeps_hash(b, sq, moved) ==
  LET s1 == IF sq = E1 \/ sq = A1 THEN without_right(b.castle_state, WHITE_LONG) ELSE b.castle_state
      s2 == IF sq = E1 \/ sq = H1 THEN without_right(s1, WHITE_SHORT) ELSE s1
      s3 == IF sq = E8 \/ sq = A8 THEN without_right(s2, BLACK_LONG) ELSE s2
      s4 == IF sq = E8 \/ sq = H8 THEN without_right(s3, BLACK_SHORT) ELSE s3
  IN  IF b.fault # "none" THEN b
      ELSE IF ~is_castle(moved) THEN b
      ELSE [b EXCEPT !.castle_state = s4]

\* update_castling that strips the rights of the white home squares only
update_castling_white_only(b, sq, moved) ==
  LET s1 == IF sq = E1 \/ sq = A1 THEN without_right(b.castle_state, WHITE_LONG) ELSE b.castle_state
      s2 == IF sq = E1 \/ sq = H1 THEN without_right(s1, WHITE_SHORT) ELSE s1
  IN  IF b.fault # "none" THEN b
      ELSE IF ~is_castle(moved) THEN b
      ELSE [b EXCEPT !.hash = hash_xor(hash_xor(b.hash, castle_hash(b.castle_state)), castle_hash(s2)),
                     !.castle_state = s2]

update_castling(b, sq, moved) ==
  LET s1 == IF sq = E1 \/ sq = A1 THEN without_right(b.castle_state, WHITE_LONG) ELSE b.castle_state
      s2 == IF sq = E1 \/ sq = H1 THEN without_right(s1, WHITE_SHORT) ELSE s1
      s3 == IF sq = E8 \/ sq = A8 THEN without_right(s2, BLACK_LONG) ELSE s2
      s4 == IF sq = E8 \/ sq = H8 THEN without_right(s3, BLACK_SHORT) ELSE s3
  IN  IF b.fault # "none" THEN b
      ELSE IF ~is_castle(moved) THEN b
      ELSE [b EXCEPT !.hash = hash_xor(hash_xor(b.hash, castle_hash(b.castle_state)), castle_hash(s4)),
                     !.castle_state = s4]

\* switch_colours that leaves the side to move as it was
switch_colours_hash_only(b) ==
  IF b.fault # "none" THEN b
  ELSE [b EXCEPT !.hash = hash_xor(b.hash, side_hash)]


switch_colours(b) ==
  IF b.fault # "none" THEN b
  ELSE [b EXCEPT !.next_move_colour = 1 - b.next_move_colour,
                 !.hash = hash_xor(b.hash, side_hash)]

(***************************************************************************)
(* Attack detection.                                                       *)
(***************************************************************************)
king_of(side) == IF side = WHITE THEN WHITE_KING ELSE BLACK_KING

queen_of(side) == IF side = WHITE THEN WHITE_QUEEN ELSE BLACK_QUEEN

rook_of(side) == IF side = WHITE THEN WHITE_ROOK ELSE BLACK_ROOK

bishop_of(side) == IF side = WHITE THEN WHITE_BISHOP ELSE BLACK_BISHOP

knight_of(side) == IF side = WHITE THEN WHITE_KNIGHT ELSE BLACK_KNIGHT

pawn_of(side) == IF side = WHITE THEN WHITE_PAWN ELSE BLACK_PAWN

diagonal_offsets == <<-11, -9, 9, 11>>

orthogonal_offsets == <<-10, -1, 1, 10>>

\* the knight offsets without the offset 8
knight_offsets_seven == <<-21, -19, -12, -8, 12, 19, 21>>

knight_offsets == <<-21, -19, -12, -8, 8, 12, 19, 21>>

queen_offsets == <<-11, -10, -9, -1, 1, 9, 10, 11>>

\* while (valid_square(cur_square) && m_pieces[cur_square] == INVALID_PIECE)
\*   cur_square += offset;
\* the number of times the loop body runs
RECURSIVE ray_len(_, _, _)
ray_len(pieces, cur_square, offset) ==
  IF valid_square(cur_square) /\ pieces[cur_square] = INVALID_PIECE
    THEN 1 + ray_len(pieces, cur_square + offset, offset)
    ELSE 0

\* the square the loop stops on
ray_stop(pieces, sq, offset) == sq + (ray_len(pieces, sq + offset, offset) + 1) * offset

\* the argument of get_side in `get_side(m_pieces[sq] == side)`: a bool
own_piece_test(pieces, sq, side) == IF pieces[sq] = side THEN 1 ELSE 0

\* the pawn offsets of the other colour
pawn_attack_offsets_forward(side) == IF side = WHITE THEN <<9, 11>> ELSE <<-9, -11>>

pawn_attack_offsets(side) == IF side = WHITE THEN <<-9, -11>> ELSE <<9, 11>>

square_attacked(b, sq, side) ==
  LET king_square == b.positions[king_of(side)][1]
      ray_hit(offset, diag) ==
        \/ king_square = sq + offset
        \/ LET cur_square == ray_stop(b.pieces, sq, offset)
               cur_piece == b.pieces[cur_square]
           IN  /\ valid_square(cur_square)
               /\ get_side(cur_piece) = side
               /\ IF diag THEN is_diag(cur_piece) ELSE is_ortho(cur_piece)
  IN  IF valid_piece(b.pieces[sq]) /\ get_side(own_piece_test(b.pieces, sq, side)) # 0
        THEN FALSE
      ELSE
        \/ \E i \in 1 .. Len(diagonal_offsets) : ray_hit(diagonal_offsets[i], TRUE)
        \/ \E i \in 1 .. Len(orthogonal_offsets) : ray_hit(orthogonal_offsets[i], FALSE)
        \/ \E i \in 1 .. Len(knight_offsets) : b.pieces[sq + knight_offsets[i]] = knight_of(side)
        \/ \E i \in 1 .. 2 : b.pieces[sq + pawn_attack_offsets(side)[i]] = pawn_of(side)

king_in_check(b) ==
  square_attacked(b, b.positions[king_of(b.next_move_colour)][1], 1 - b.next_move_colour)

(***************************************************************************)
(* validate_board: the checks of the DEBUG build.                          *)
(***************************************************************************)
piece_count(b, p) == Cardinality({sq \in Cells : b.pieces[sq] = p})

validate_board(b) ==
  /\ \A sq \in Cells : valid_piece(b.pieces[sq]) \/ b.pieces[sq] = INVALID_PIECE
  /\ b.num_pieces[WHITE_KING] = 1
  /\ b.num_pieces[BLACK_KING] = 1
  /\ \A p \in PieceIds :
       /\ ~valid_piece(p) => b.num_pieces[p] = 0
       /\ valid_piece(p) => b.num_pieces[p] = piece_count(b, p)
       /\ b.num_pieces[p] <= MAX_PIECE_FREQ
       /\ \A num \in 1 .. b.num_pieces[p] :
            /\ b.pieces[b.positions[p][num]] = p
            /\ \A compare_idx \in (num + 1) .. b.num_pieces[p] :
                 b.positions[p][num] # b.positions[p][compare_idx]
  /\ b.castle_state >= 0 /\ b.castle_state < 16
  /\ valid_square(b.en_passant) \/ b.en_passant = INVALID_SQUARE
  /\ (b.next_move_colour = BLACK /\ b.en_passant # INVALID_SQUARE)
       => get_square_row(b.en_passant) = RANK_3
  /\ (b.next_move_colour = WHITE /\ b.en_passant # INVALID_SQUARE)
       => get_square_row(b.en_passant) = RANK_6
  /\ ~square_attacked(b, b.positions[king_of(1 - b.next_move_colour)][1], b.next_move_colour)

validated(b) == IF b.fault = "none" /\ ~validate_board(b) THEN fail(b, "assert") ELSE b

(***************************************************************************)
(* Pseudo-move generation.                                                 *)
(***************************************************************************)
MAX_POSITION_MOVES == 256

RECURSIVE flatten(_)
flatten(ss) == IF ss = <<>> THEN <<>> ELSE Head(ss) \o flatten(Tail(ss))

\* the capture test without the colour test
may_capture_any_colour(pieces, piece, sq) ==
  valid_square(sq) /\ pieces[sq] # INVALID_PIECE /\ ~is_king(pieces[sq])

\* the capture test without the test for a king
may_capture_takes_king(pieces, piece, sq) ==
  valid_square(sq) /\ pieces[sq] # INVALID_PIECE /\ opposite_colours(piece, pieces[sq])

\* the capture test of sliders, knights and the king
may_capture(pieces, piece, sq) ==
  valid_square(sq) /\ opposite_colours(piece, pieces[sq]) /\ ~is_king(pieces[sq])

ray_moves(b, start, piece, offset) ==
  LET n == ray_len(b.pieces, start + offset, offset)
      cur_square == start + (n + 1) * offset
  IN  [i \in 1 .. n |-> quiet_move(start, start + i * offset, piece)]
        \o (IF may_capture(b.pieces, piece, cur_square)
              THEN <<capture_move(start, cur_square, piece, b.pieces[cur_square])>>
              ELSE <<>>)

slider_moves(b, piece, offsets) ==
  flatten([idx \in 1 .. b.num_pieces[piece] |->
    flatten([o \in 1 .. Len(offsets) |-> ray_moves(b, b.positions[piece][idx], piece, offsets[o])])])

step_move(b, start, piece, offset) ==
  LET cur_square == start + offset
  IN  IF valid_square(cur_square) /\ b.pieces[cur_square] = INVALID_PIECE
        THEN <<quiet_move(start, cur_square, piece)>>
      ELSE IF may_capture(b.pieces, piece, cur_square)
        THEN <<capture_move(start, cur_square, piece, b.pieces[cur_square])>>
      ELSE <<>>

knight_moves(b, piece) ==
  flatten([idx \in 1 .. b.num_pieces[piece] |->
    flatten([o \in 1 .. Len(knight_offsets) |->
      step_move(b, b.positions[piece][idx], piece, knight_offsets[o])])])

\* the four promotion pieces taken one entry early: king, queen, rook, bishop
promote_pieces_from_king(side) ==
  <<flip_side(king_of(side)), flip_side(queen_of(side)),
    flip_side(rook_of(side)), flip_side(bishop_of(side))>>

\* const piece_t promote_pieces[4] = {queen_piece ^ 8u, rook_piece ^ 8u, ...}
promote_pieces(side) ==
  <<flip_side(queen_of(side)), flip_side(rook_of(side)),
    flip_side(bishop_of(side)), flip_side(knight_of(side))>>

last_rank(sq) == get_square_row(sq) = RANK_1 \/ get_square_row(sq) = RANK_8

pawn_capture(b, side, start, capture) ==
  LET pawn_piece == pawn_of(side)
  IN  IF /\ valid_square(capture)
         /\ b.pieces[capture] # INVALID_PIECE
         /\ opposite_colours(pawn_piece, b.pieces[capture])
         /\ ~is_king(b.pieces[capture])
        THEN IF last_rank(capture)
               THEN [i \in 1 .. 4 |->
                      promote_capture_move(start, capture, pawn_piece,
                                           promote_pieces(side)[i], b.pieces[capture])]
               ELSE <<capture_move(start, capture, pawn_piece, b.pieces[capture])>>
        ELSE <<>>

one_pawn_moves(b, side, start) ==
  LET pawn_piece == pawn_of(side)
      offset == IF side = WHITE THEN 10 ELSE -10
      cur_square == start + offset
      capture1 == cur_square - 1
      capture2 == cur_square + 1
      double ==
        IF /\ get_square_row(start) = (IF side = WHITE THEN RANK_2 ELSE RANK_7)
           /\ b.pieces[start + offset] = INVALID_PIECE
           /\ b.pieces[start + 2 * offset] = INVALID_PIECE
          THEN <<double_move(start, start + 2 * offset, pawn_piece)>>
          ELSE <<>>
      single ==
        IF valid_square(cur_square) /\ b.pieces[cur_square] = INVALID_PIECE
          THEN IF last_rank(cur_square)
                 THEN [i \in 1 .. 4 |->
                        promote_move(start, cur_square, pawn_piece, promote_pieces(side)[i])]
                 ELSE <<quiet_move(start, start + offset, pawn_piece)>>
          ELSE <<>>
      en_pass(capture) ==
        IF /\ b.en_passant # INVALID_SQUARE
           /\ capture = b.en_passant
           /\ b.pieces[capture] = INVALID_PIECE
          THEN <<en_passant_move(start, b.en_passant, pawn_piece)>>
          ELSE <<>>
  IN  double \o single \o pawn_capture(b, side, start, capture1)
        \o pawn_capture(b, side, start, capture2) \o en_pass(capture1) \o en_pass(capture2)

pawn_moves(b, side) ==
  flatten([idx \in 1 .. b.num_pieces[pawn_of(side)] |->
    one_pawn_moves(b, side, b.positions[pawn_of(side)][idx])])

king_moves(b, side) ==
  LET start == b.positions[king_of(side)][1]
      one(offset) ==
        LET cur_square == start + offset
            piece == b.pieces[cur_square]
        IN  IF ~valid_square(cur_square) THEN <<>>
            ELSE IF piece = INVALID_PIECE THEN <<quiet_move(start, cur_square, king_of(side))>>
            ELSE IF opposite_colours(king_of(side), piece) /\ ~is_king(piece)
              THEN <<capture_move(start, cur_square, king_of(side), piece)>>
            ELSE <<>>
  IN  flatten([o \in 1 .. Len(queen_offsets) |-> one(queen_offsets[o])])

\* the castling block without the test of the square the king passes over
castle_moves_through_check(b, side) ==
  LET home == IF side = WHITE THEN 0 ELSE A8 - A1
      other == 1 - side
      short == IF side = WHITE THEN WHITE_SHORT ELSE BLACK_SHORT
      long == IF side = WHITE THEN WHITE_LONG ELSE BLACK_LONG
      e_attacked == square_attacked(b, E1 + home, other)
      empty(sq) == b.pieces[sq + home] = INVALID_PIECE
  IN  (IF /\ has_right(b.castle_state, short) /\ ~e_attacked
          /\ empty(F1) /\ empty(G1)
         THEN <<castle_move(E1 + home, G1 + home, king_of(side), SHORT_CASTLE_MOVE)>>
         ELSE <<>>)
      \o
      (IF /\ has_right(b.castle_state, long) /\ ~e_attacked
          /\ empty(D1) /\ empty(C1) /\ empty(B1)
         THEN <<castle_move(E1 + home, C1 + home, king_of(side), LONG_CASTLE_MOVE)>>
         ELSE <<>>)

castle_moves(b, side) ==
  LET home == IF side = WHITE THEN 0 ELSE A8 - A1
      other == 1 - side
      short == IF side = WHITE THEN WHITE_SHORT ELSE BLACK_SHORT
      long == IF side = WHITE THEN WHITE_LONG ELSE BLACK_LONG
      d_attacked == square_attacked(b, D1 + home, other)
      e_attacked == square_attacked(b, E1 + home, other)
      f_attacked == square_attacked(b, F1 + home, other)
      empty(sq) == b.pieces[sq + home] = INVALID_PIECE
  IN  (IF /\ has_right(b.castle_state, short) /\ ~e_attacked /\ ~f_attacked
          /\ empty(F1) /\ empty(G1)
         THEN <<castle_move(E1 + home, G1 + home, king_of(side), SHORT_CASTLE_MOVE)>>
         ELSE <<>>)
      \o
      (IF /\ has_right(b.castle_state, long) /\ ~e_attacked /\ ~d_attacked
          /\ empty(D1) /\ empty(C1) /\ empty(B1)
         THEN <<castle_move(E1 + home, C1 + home, king_of(side), LONG_CASTLE_MOVE)>>
         ELSE <<>>)

\* the body of pseudo_moves after the cache lookup and validate_board
gen_moves(b, requested_side) ==
  LET side == IF requested_side # INVALID_SIDE THEN requested_side ELSE b.next_move_colour
  IN  IF b.half_move > 1000 \/ b.fifty_move > 75 THEN <<>>
      ELSE slider_moves(b, queen_of(side), queen_offsets)
             \o slider_moves(b, rook_of(side), orthogonal_offsets)
             \o slider_moves(b, bishop_of(side), diagonal_offsets)
             \o knight_moves(b, knight_of(side))
             \o pawn_moves(b, side)
             \o king_moves(b, side)
             \o castle_moves(b, side)

\* the hard-draw return leaves the cache alone; every other miss stores
stores_result(b) == ~(b.half_move > 1000 \/ b.fifty_move > 75)

\* pseudo_moves: the list returned and the board with its (mutable) move cache
pseudo_moves(b, requested_side) ==
  IF b.fault # "none" THEN [moves |-> <<>>, board |-> b]
  ELSE IF b.hash \in DOMAIN b.move_cache
    THEN [moves |-> b.move_cache[b.hash], board |-> b]
  ELSE IF ~validate_board(b) THEN [moves |-> <<>>, board |-> fail(b, "assert")]
  ELSE LET generated(result) ==
             IF ~stores_result(b) THEN [moves |-> result, board |-> b]
             ELSE IF Len(result) > MAX_POSITION_MOVES
               THEN [moves |-> result, board |-> fail(b, "assert")]
             ELSE [moves |-> result,
                   board |-> [b EXCEPT !.move_cache =
                               [h \in DOMAIN b.move_cache \cup {b.hash} |->
                                 IF h = b.hash THEN result ELSE b.move_cache[h]]]]
       IN  generated(gen_moves(b, requested_side))

(***************************************************************************)
(* make_move / unmake_move.                                                *)
(***************************************************************************)
\* an undo record that does not keep the fifty-move counter
history_entry_without_clock(b, move) ==
  [move |-> move, castle_state |-> b.castle_state, en_passant |-> b.en_passant,
   fifty_move |-> 0, hash |-> b.hash]


history_entry(b, move) ==
  [move |-> move, castle_state |-> b.castle_state, en_passant |-> b.en_passant,
   fifty_move |-> b.fifty_move, hash |-> b.hash]

\* the squares of a castle move: king from/to, rook from/to
castle_squares(side, flag) ==
  LET home == IF side = WHITE THEN 0 ELSE A8 - A1
  IN  IF flag = SHORT_CASTLE_MOVE
        THEN [kf |-> E1 + home, kt |-> G1 + home, rf |-> H1 + home, rt |-> F1 + home]
        ELSE [kf |-> E1 + home, kt |-> C1 + home, rf |-> A1 + home, rt |-> D1 + home]

\* the pieces, castle rights and en-passant target after the move
apply_move(b, move) ==
  LET flag == move_flag(move)
      from == move_from(move)
      to == move_to(move)
      moved == moved_piece(move)
      cur_side == b.next_move_colour
      enpas_square == IF cur_side = WHITE THEN to - 10 ELSE to + 10
  IN  IF move_promoted(move) THEN
        LET b1 == IF move_captured(move) THEN remove_piece(b, to) ELSE b
            b2 == add_piece(b1, to, promoted_piece(move))
            b3 == remove_piece(b2, from)
        IN  set_en_passant(b3, INVALID_SQUARE)
      ELSE IF move_castled(move) THEN
        LET c == castle_squares(cur_side, flag)
            b1 == move_piece(b, c.kf, c.kt)
            b2 == move_piece(b1, c.rf, c.rt)
            cleared ==
              IF cur_side = WHITE
                THEN without_right(without_right(b2.castle_state, WHITE_LONG), WHITE_SHORT)
                ELSE without_right(without_right(b2.castle_state, BLACK_LONG), BLACK_SHORT)
            b3 == set_castle_state(b2, cleared)
        IN  set_en_passant(b3, INVALID_SQUARE)
      ELSE
        LET b1 == IF flag = DOUBLE_PAWN_MOVE THEN set_en_passant(b, enpas_square)
                  ELSE set_en_passant(b, INVALID_SQUARE)
        IN  IF flag = QUIET_MOVE THEN update_castling(move_piece(b1, from, to), from, moved)
            ELSE IF flag = DOUBLE_PAWN_MOVE THEN move_piece(b1, from, to)
            ELSE IF flag = CAPTURE_MOVE
              THEN update_castling(move_piece(remove_piece(b1, to), from, to), from, moved)
            ELSE IF flag = EN_PASSANT_MOVE
              THEN move_piece(remove_piece(b1, enpas_square), from, to)
            ELSE b1

\* the fifty-move update that resets on captures only
next_fifty_captures_only(b, move) ==
  IF move_captured(move) THEN 0 ELSE b.fifty_move + 1

next_fifty(b, move) ==
  IF move_captured(move) \/ is_pawn(moved_piece(move)) THEN 0 ELSE b.fifty_move + 1

\* make_move: the board after the call and the value returned
make_move(b, move) ==
  LET cur_side == b.next_move_colour
      other_side == 1 - cur_side
      \* if (king_in_check) return false;  validate_board();  return true;
      returned(b3, king_attacked) ==
        IF king_attacked THEN [board |-> b3, valid |-> FALSE]
        ELSE [board |-> validated(b3), valid |-> TRUE]
      checked(b3) ==
        returned(b3, square_attacked(b3, b3.positions[king_of(cur_side)][1], other_side))
      \* the fifty-move counter and the side to move, after the pieces have moved
      counted(b1) ==
        IF b1.fault # "none" THEN [board |-> b1, valid |-> FALSE]
        ELSE checked(switch_colours([b1 EXCEPT !.fifty_move = next_fifty(b, move)]))
  IN  IF b.fault # "none" THEN [board |-> b, valid |-> FALSE]
      ELSE counted(apply_move([b EXCEPT !.history = Append(b.history, history_entry(b, move)),
                                        !.half_move = b.half_move + 1],
                              move))

\* revert_move that does not put the captured piece of a promote-capture back
revert_move_promote_capture_lost(b, move) ==
  LET flag == move_flag(move)
      from == move_from(move)
      to == move_to(move)
      cur_side == b.next_move_colour
  IN  IF move_promoted(move) THEN add_piece(remove_piece(b, to), from, moved_piece(move))
      ELSE IF move_castled(move) THEN
        LET c == castle_squares(cur_side, flag)
        IN  move_piece(move_piece(b, c.kt, c.kf), c.rt, c.rf)
      ELSE
        LET b1 == move_piece(b, to, from)
            en_pas_sq == IF cur_side = WHITE THEN b.en_passant - 10 ELSE b.en_passant + 10
            captured_sq == IF flag = CAPTURE_MOVE THEN to ELSE en_pas_sq
        IN  IF move_captured(move) THEN add_piece(b1, captured_sq, captured_piece(move)) ELSE b1

\* the piece motion of unmake_move, on the board with the entry's fields restored
revert_move(b, move) ==
  LET flag == move_flag(move)
      from == move_from(move)
      to == move_to(move)
      cur_side == b.next_move_colour
  IN  IF move_promoted(move) THEN
        LET b1 == remove_piece(b, to)
            b2 == add_piece(b1, from, moved_piece(move))
        IN  IF move_captured(move) THEN add_piece(b2, to, captured_piece(move)) ELSE b2
      ELSE IF move_castled(move) THEN
        LET c == castle_squares(cur_side, flag)
        IN  move_piece(move_piece(b, c.kt, c.kf), c.rt, c.rf)
      ELSE
        LET b1 == move_piece(b, to, from)
            en_pas_sq == IF cur_side = WHITE THEN b.en_passant - 10 ELSE b.en_passant + 10
            captured_sq == IF flag = CAPTURE_MOVE THEN to ELSE en_pas_sq
        IN  IF move_captured(move) THEN add_piece(b1, captured_sq, captured_piece(move)) ELSE b1

\* unmake_move that does not restore m_fifty_move
unmake_move_keeps_fifty(b) ==
  IF b.fault # "none" THEN b
  ELSE IF b.history = <<>> THEN fail(b, "assert")
  ELSE
    LET entry == b.history[Len(b.history)]
        compared(b4) ==
          IF b4.fault = "none" /\ b4.hash # entry.hash THEN fail(b4, "assert")
          ELSE validated(b4)
        reverted(b2) ==
          IF b2.half_move <= 0 THEN fail(b2, "assert")
          ELSE compared(revert_move(switch_colours([b2 EXCEPT !.half_move = b2.half_move - 1]),
                                    entry.move))
        restored_fields(b0) ==
          set_en_passant(set_castle_state(b0, entry.castle_state), entry.en_passant)
    IN  reverted(restored_fields([b EXCEPT !.history = SubSeq(b.history, 1, Len(b.history) - 1)]))

unmake_move(b) ==
  IF b.fault # "none" THEN b
  ELSE IF b.history = <<>> THEN fail(b, "assert")
  ELSE
    LET entry == b.history[Len(b.history)]
        \* ASSERT_MSG(m_hash == entry.hash, ...);  validate_board();
        compared(b4) ==
          IF b4.fault = "none" /\ b4.hash # entry.hash THEN fail(b4, "assert")
          ELSE validated(b4)
        \* the counters, the side to move and the pieces, after the entry's fields
        reverted(b2) ==
          IF b2.half_move <= 0 THEN fail(b2, "assert")
          ELSE compared(revert_move(switch_colours([b2 EXCEPT !.half_move = b2.half_move - 1]),
                                    entry.move))
        restored_fields(b0) ==
          [set_en_passant(set_castle_state(b0, entry.castle_state), entry.en_passant)
             EXCEPT !.fifty_move = entry.fifty_move]
    IN  reverted(restored_fields([b EXCEPT !.history = SubSeq(b.history, 1, Len(b.history) - 1)]))

(***************************************************************************)
(* legal_moves: make and unmake every pseudo-move on a scratch copy.       *)
(***************************************************************************)
\* the loop of legal_moves over moves[lo .. hi], run on the scratch copy tmp:
\* the copy after the loop and the moves make_move accepted, in order (the
\* iterations are run first half, then second half on the copy the first left)
RECURSIVE legal_loop(_, _, _, _)
legal_loop(tmp, moves, lo, hi) ==
  IF lo > hi \/ tmp.fault # "none" THEN [board |-> tmp, moves |-> <<>>]
  ELSE IF lo = hi
    THEN LET \* if (tmp.make_move(move)) result.push_back(move);  tmp.unmake_move();
             tried(made) ==
               [board |-> unmake_move(made.board),
                moves |-> IF made.valid THEN <<moves[lo]>> ELSE <<>>]
         IN  tried(make_move(tmp, moves[lo]))
  ELSE LET joined(accepted, second) ==
             [board |-> second.board, moves |-> accepted \o second.moves]
           continued(first) ==
             joined(first.moves, legal_loop(first.board, moves, ((lo + hi) \div 2) + 1, hi))
       IN  continued(legal_loop(tmp, moves, lo, (lo + hi) \div 2))

\* legal_moves that returns every pseudo-move
legal_moves_unfiltered(b) ==
  LET unfiltered(gen) == [moves |-> gen.moves, fault |-> gen.board.fault]
  IN  unfiltered(pseudo_moves(b, INVALID_SIDE))

\* the list returned, and the fault (if any) the scratch copy ran into
legal_moves(b) ==
  LET returned(done) == [moves |-> done.moves, fault |-> done.board.fault]
      filtered(gen) == returned(legal_loop(gen.board, gen.moves, 1, Len(gen.moves)))
  IN  filtered(pseudo_moves(b, INVALID_SIDE))

(***************************************************************************)
(* The full recomputation of the hash.                                     *)
(***************************************************************************)
\* res ^= piece_hash[sq][piece] for sq = lo .. hi (XOR is associative: the
\* range is folded by halves)
RECURSIVE xor_cells(_, _, _)
xor_cells(pieces, lo, hi) ==
  IF lo = hi THEN piece_hash(lo, pieces[lo])
  ELSE LET mid == (lo + hi) \div 2
       IN  hash_xor(xor_cells(pieces, lo, mid), xor_cells(pieces, mid + 1, hi))

compute_hash(b) ==
  hash_xor(hash_xor(hash_xor(xor_cells(b.pieces, 0, NumCells - 1), castle_hash(b.castle_state)),
                    enpas_hash(b.en_passant)),
           IF b.next_move_colour = BLACK THEN side_hash ELSE {})

(***************************************************************************)
(* The FEN codec.  A FEN string is a sequence of one-character strings; a  *)
(* read at or past the end gives the terminating NUL.                      *)
(***************************************************************************)
NUL == "\\0"

DigitChars == <<"0", "1", "2", "3", "4", "5", "6", "7", "8", "9">>

FileChars == <<"a", "b", "c", "d", "e", "f", "g", "h">>

char_at(fen, i) == IF i >= 1 /\ i <= Len(fen) THEN fen[i] ELSE NUL

is_digit(c) == \E d \in 1 .. 10 : DigitChars[d] = c

\* chr - '0'
digit_value(c) == (CHOOSE d \in 1 .. 10 : DigitChars[d] = c) - 1

is_file(c) == \E f \in 1 .. 8 : FileChars[f] = c

\* chr - 'a'
file_value(c) == (CHOOSE f \in 1 .. 8 : FileChars[f] = c) - 1

empty_board ==
  [pieces |-> [sq \in Cells |-> INVALID_PIECE],
   positions |-> [p \in PieceIds |-> <<>>],
   num_pieces |-> [p \in PieceIds |-> 0],
   next_move_colour |-> WHITE,
   castle_state |-> 0,
   en_passant |-> INVALID_SQUARE,
   fifty_move |-> 0,
   half_move |-> 0,
   hash |-> {},
   history |-> <<>>,
   move_cache |-> <<>>,
   fault |-> "none"]

\* Part 1: the board state.  Returns the index of the space that ends the field.
RECURSIVE parse_placement(_, _, _, _)
parse_placement(fen, i, square_idx, b) ==
  LET chr == char_at(fen, i)
  IN  IF b.fault # "none" \/ chr = " " \/ i > Len(fen)
        THEN [i |-> i, b |-> IF b.fault = "none" /\ (square_idx # 29 \/ chr # " ")
                                THEN fail(b, "assert") ELSE b]
      ELSE IF chr = "/"
        THEN IF square_idx % 10 # 9 THEN [i |-> i, b |-> fail(b, "assert")]
             ELSE parse_placement(fen, i + 1, square_idx - 18, b)
      ELSE IF is_digit(chr) /\ digit_value(chr) >= 1 /\ digit_value(chr) <= 8
        THEN LET next == square_idx + digit_value(chr)
             IN  IF ~(next % 10 = 9 \/ valid_square(next)) THEN [i |-> i, b |-> fail(b, "assert")]
                 ELSE parse_placement(fen, i + 1, next, b)
      ELSE
        LET piece_idx == piece_from_char(chr)
            n == b.num_pieces[piece_idx]
        IN  IF \/ ~valid_square(square_idx)
               \/ ~valid_piece(piece_idx)
               \/ n >= MAX_PIECE_FREQ
               \/ ~((square_idx + 1) % 10 = 9 \/ valid_square(square_idx + 1))
              THEN [i |-> i, b |-> fail(b, "assert")]
            ELSE parse_placement(fen, i + 1, square_idx + 1,
                   [b EXCEPT !.pieces[square_idx] = piece_idx,
                             !.positions[piece_idx] = Append(b.positions[piece_idx], square_idx),
                             !.num_pieces[piece_idx] = n + 1])

\* Part 3: castle state.  Returns the index of the space that ends the field.
RECURSIVE parse_castle(_, _, _)
parse_castle(fen, i, state) ==
  LET chr == char_at(fen, i)
  IN  IF chr = " " THEN [i |-> i, state |-> state, ok |-> TRUE]
      ELSE IF chr = "K" THEN parse_castle(fen, i + 1, with_right(state, WHITE_SHORT))
      ELSE IF chr = "Q" THEN parse_castle(fen, i + 1, with_right(state, WHITE_LONG))
      ELSE IF chr = "k" THEN parse_castle(fen, i + 1, with_right(state, BLACK_SHORT))
      ELSE IF chr = "q" THEN parse_castle(fen, i + 1, with_right(state, BLACK_LONG))
      ELSE [i |-> i, state |-> state, ok |-> FALSE]

\* Parts 5 and 6: a decimal number up to `stop` (a space, or the end of the string)
RECURSIVE parse_number(_, _, _, _)
parse_number(fen, i, stop, acc) ==
  LET chr == char_at(fen, i)
  IN  IF (stop = " " /\ chr = " ") \/ (stop = NUL /\ i > Len(fen))
        THEN [i |-> i, value |-> acc, ok |-> TRUE]
      ELSE IF ~is_digit(chr) THEN [i |-> i, value |-> acc, ok |-> FALSE]
      ELSE parse_number(fen, i + 1, stop, 10 * acc + digit_value(chr))

\* Part 4: the en-passant square as parsed, before the elision
parse_en_passant(fen, i) ==
  LET row == digit_value(char_at(fen, i + 1)) - 1
      col == file_value(char_at(fen, i))
  IN  get_square_120_rc(row, col)

\* the elision: no pawn of the side to move beside the en-passant square
elided(pieces, en_passant, colour) ==
  /\ pieces[en_passant - 1] # pawn_of(colour)
  /\ pieces[en_passant + 1] # pawn_of(colour)

\* Board::Board(fen)
Board(fen) ==
  LET \* m_hash = compute_hash();  validate_board();
      built(b) == validated([b EXCEPT !.hash = compute_hash(b)])
      \* Parts 5 and 6: the fifty-move counter and the full-move number
      part6(b, p5, p6) ==
        IF ~p5.ok \/ ~p6.ok THEN fail(b, "assert")
        ELSE built([b EXCEPT !.fifty_move = p5.value,
                             !.half_move = 2 * p6.value + b.next_move_colour])
      part5(b, p5) == part6(b, p5, parse_number(fen, p5.i + 1, NUL, 0))
      \* Part 4: the en-passant square; fifty_at is where the next field starts
      part4(b, ep_at) ==
        LET no_ep == char_at(fen, ep_at) = "-"
            ep_ok == no_ep \/ (is_file(char_at(fen, ep_at)) /\ is_digit(char_at(fen, ep_at + 1)))
            ep_parsed == IF no_ep THEN INVALID_SQUARE ELSE parse_en_passant(fen, ep_at)
            ep_row_ok ==
              no_ep \/ get_square_row(ep_parsed)
                         = (IF b.next_move_colour = WHITE THEN RANK_6 ELSE RANK_3)
            en_passant == IF no_ep \/ elided(b.pieces, ep_parsed, b.next_move_colour)
                            THEN INVALID_SQUARE ELSE ep_parsed
            fifty_at == (IF no_ep THEN ep_at + 1 ELSE ep_at + 2) + 1
        IN  IF ~ep_ok \/ ~ep_row_ok THEN fail(b, "assert")
            ELSE IF char_at(fen, fifty_at - 1) # " " THEN fail(b, "assert")
            ELSE part5([b EXCEPT !.en_passant = en_passant], parse_number(fen, fifty_at, " ", 0))
      \* Part 3: the castle rights
      part3(b, p3) ==
        IF ~p3.ok \/ char_at(fen, p3.i) # " " THEN fail(b, "assert")
        ELSE part4([b EXCEPT !.castle_state = p3.state], p3.i + 1)
      \* Part 2: the side to move
      part2(p1) ==
        LET side_chr == char_at(fen, p1.i + 1)
            castle_at == p1.i + 3
        IN  IF p1.b.fault # "none" THEN p1.b
            ELSE IF ~(side_chr = "w" \/ side_chr = "b") THEN fail(p1.b, "assert")
            ELSE part3([p1.b EXCEPT !.next_move_colour = IF side_chr = "w" THEN WHITE ELSE BLACK],
                       IF char_at(fen, castle_at) = "-"
                         THEN [i |-> castle_at + 1, state |-> 0, ok |-> TRUE]
                         ELSE parse_castle(fen, castle_at, 0))
  IN  part2(parse_placement(fen, 1, A8, empty_board))

RECURSIVE to_digits(_)
to_digits(n) ==
  IF n < 10 THEN <<DigitChars[n + 1]>> ELSE Append(to_digits(n \div 10), DigitChars[(n % 10) + 1])

string_from_square(sq) ==
  IF sq = INVALID_SQUARE THEN <<"-">>
  ELSE <<FileChars[sq % 10], DigitChars[get_square_row(sq) + 2]>>

\* Part 1 of fen(), the squares of one rank from square_idx on: the loop body
\* up to the square after the h-file, where the blanks counted are written
RECURSIVE render_rank(_, _, _)
render_rank(pieces, square_idx, blank_count) ==
  LET flush == IF blank_count # 0 THEN <<DigitChars[blank_count + 1]>> ELSE <<>>
  IN  IF square_idx % 10 = 9 THEN flush
      ELSE IF pieces[square_idx] = INVALID_PIECE
        THEN render_rank(pieces, square_idx + 1, blank_count + 1)
      ELSE flush \o <<char_from_piece(pieces[square_idx])>>
             \o render_rank(pieces, square_idx + 1, 0)

\* Part 1 of fen(): the piece placement, rank after rank from square_idx (the
\* a-file square of a rank) until the loop ends on index 29, after H1
RECURSIVE render_placement(_, _, _)
render_placement(pieces, square_idx, blank_count) ==
  LET rank_end == (square_idx \div 10) * 10 + 9
  IN  IF rank_end = 29 THEN render_rank(pieces, square_idx, blank_count)
      ELSE render_rank(pieces, square_idx, blank_count) \o <<"/">>
             \o render_placement(pieces, rank_end - 18, 0)

render_castle(state) ==
  IF state = 0 THEN <<"-">>
  ELSE (IF has_right(state, WHITE_SHORT) THEN <<"K">> ELSE <<>>)
         \o (IF has_right(state, WHITE_LONG) THEN <<"Q">> ELSE <<>>)
         \o (IF has_right(state, BLACK_SHORT) THEN <<"k">> ELSE <<>>)
         \o (IF has_right(state, BLACK_LONG) THEN <<"q">> ELSE <<>>)

\* Board::fen(), on a board that passes validate_board
fen(b) ==
  render_placement(b.pieces, A8, 0) \o <<" ">>
    \o <<(IF b.next_move_colour = WHITE THEN "w" ELSE "b"), " ">>
    \o render_castle(b.castle_state) \o <<" ">>
    \o string_from_square(b.en_passant) \o <<" ">>
    \o to_digits(b.fifty_move) \o <<" ">>
    \o to_digits(b.half_move \div 2)

(***************************************************************************)
(* Positions.                                                              *)
(***************************************************************************)
\* rnbqkbnr/pppppppp/8/8/8/8/PPPPPPPP/RNBQKBNR w KQkq - 0 1  (the start position)
FenStart ==
  <<"r", "n", "b", "q", "k", "b", "n", "r", "/", "p", "p", "p", "p", "p", "p", "p", "p", "/", "8", "/", "8", "/", "8", "/", "8", "/", "P", "P", "P", "P", "P", "P", "P", "P", "/", "R", "N", "B", "Q", "K", "B", "N", "R", " ", "w", " ", "K", "Q", "k", "q", " ", "-", " ", "0", " ", "1">>

\* r3k2r/p1ppqpb1/bn2pnp1/3PN3/1p2P3/2N2Q1p/PPPBBPPP/R3K2R w KQkq - 0 1
FenKiwipete ==
  <<"r", "3", "k", "2", "r", "/", "p", "1", "p", "p", "q", "p", "b", "1", "/", "b", "n", "2", "p", "n", "p", "1", "/", "3", "P", "N", "3", "/", "1", "p", "2", "P", "3", "/", "2", "N", "2", "Q", "1", "p", "/", "P", "P", "P", "B", "B", "P", "P", "P", "/", "R", "3", "K", "2", "R", " ", "w", " ", "K", "Q", "k", "q", " ", "-", " ", "0", " ", "1">>

\* 8/2p5/3p4/KP5r/1R3p1k/8/4P1P1/8 w - - 0 1
FenEndgame ==
  <<"8", "/", "2", "p", "5", "/", "3", "p", "4", "/", "K", "P", "5", "r", "/", "1", "R", "3", "p", "1", "k", "/", "8", "/", "4", "P", "1", "P", "1", "/", "8", " ", "w", " ", "-", " ", "-", " ", "0", " ", "1">>

\* r3k2r/Pppp1ppp/1b3nbN/nP6/BBP1P3/q4N2/Pp1P2PP/R2Q1RK1 w kq - 0 1
FenInCheck ==
  <<"r", "3", "k", "2", "r", "/", "P", "p", "p", "p", "1", "p", "p", "p", "/", "1", "b", "3", "n", "b", "N", "/", "n", "P", "6", "/", "B", "B", "P", "1", "P", "3", "/", "q", "4", "N", "2", "/", "P", "p", "1", "P", "2", "P", "P", "/", "R", "2", "Q", "1", "R", "K", "1", " ", "w", " ", "k", "q", " ", "-", " ", "0", " ", "1">>

\* rnbq1k1r/pp1Pbppp/2p5/8/2B5/8/PPP1NnPP/RNBQK2R w KQ - 1 8
FenPromote ==
  <<"r", "n", "b", "q", "1", "k", "1", "r", "/", "p", "p", "1", "P", "b", "p", "p", "p", "/", "2", "p", "5", "/", "8", "/", "2", "B", "5", "/", "8", "/", "P", "P", "P", "1", "N", "n", "P", "P", "/", "R", "N", "B", "Q", "K", "2", "R", " ", "w", " ", "K", "Q", " ", "-", " ", "1", " ", "8">>

\* 4k3/8/8/8/8/8/6b1/4K2R b K - 0 1  (white may castle short; the bishop can take the rook on h1)
FenShort ==
  <<"4", "k", "3", "/", "8", "/", "8", "/", "8", "/", "8", "/", "8", "/", "6", "b", "1", "/", "4", "K", "2", "R", " ", "b", " ", "K", " ", "-", " ", "0", " ", "1">>

\* 4k3/8/8/8/8/8/8/R3K3 w Q - 0 1  (white may castle long)
FenLong ==
  <<"4", "k", "3", "/", "8", "/", "8", "/", "8", "/", "8", "/", "8", "/", "8", "/", "R", "3", "K", "3", " ", "w", " ", "Q", " ", "-", " ", "0", " ", "1">>

\* 4k2r/8/8/8/8/8/8/4K3 b k - 5 20  (black may castle short)
FenBlackShort ==
  <<"4", "k", "2", "r", "/", "8", "/", "8", "/", "8", "/", "8", "/", "8", "/", "8", "/", "4", "K", "3", " ", "b", " ", "k", " ", "-", " ", "5", " ", "2", "0">>

\* 1n2k3/P7/8/8/8/8/8/4K3 w - - 3 10  (promotion and promote-capture)
FenPawn7 ==
  <<"1", "n", "2", "k", "3", "/", "P", "7", "/", "8", "/", "8", "/", "8", "/", "8", "/", "8", "/", "4", "K", "3", " ", "w", " ", "-", " ", "-", " ", "3", " ", "1", "0">>

\* 4k3/3p4/8/4P3/8/8/8/4K3 b - - 0 7  (a double pawn move that allows an en-passant capture)
FenDouble ==
  <<"4", "k", "3", "/", "3", "p", "4", "/", "8", "/", "4", "P", "3", "/", "8", "/", "8", "/", "8", "/", "4", "K", "3", " ", "b", " ", "-", " ", "-", " ", "0", " ", "7">>

\* 4k3/8/4P3/3pP3/8/8/8/4K3 w - d6 0 12  (an en-passant target the parser keeps)
FenEnPassant ==
  <<"4", "k", "3", "/", "8", "/", "4", "P", "3", "/", "3", "p", "P", "3", "/", "8", "/", "8", "/", "8", "/", "4", "K", "3", " ", "w", " ", "-", " ", "d", "6", " ", "0", " ", "1", "2">>

\* 4k3/4r3/8/8/8/8/4B3/4K3 w - - 12 30  (a pinned bishop: its moves leave the king in check)
FenPinned ==
  <<"4", "k", "3", "/", "4", "r", "3", "/", "8", "/", "8", "/", "8", "/", "8", "/", "4", "B", "3", "/", "4", "K", "3", " ", "w", " ", "-", " ", "-", " ", "1", "2", " ", "3", "0">>

\* 4k3/8/8/8/8/n7/nP6/4K3 w - - 0 1  (a capture of the first of two knights in the piece list)
FenKnights ==
  <<"4", "k", "3", "/", "8", "/", "8", "/", "8", "/", "8", "/", "n", "7", "/", "n", "P", "6", "/", "4", "K", "3", " ", "w", " ", "-", " ", "-", " ", "0", " ", "1">>

\* r3k3/8/8/8/3b4/8/P7/4K2R w Kq - 0 1  (white may castle short onto g1, which the bishop attacks; black may castle long)
FenCastleInto ==
  <<"r", "3", "k", "3", "/", "8", "/", "8", "/", "8", "/", "3", "b", "4", "/", "8", "/", "P", "7", "/", "4", "K", "2", "R", " ", "w", " ", "K", "q", " ", "-", " ", "0", " ", "1">>

\* 7k/8/8/8/8/8/8/K7 w - - 72 200  (bare kings, four plies from the 75-move limit)
FenLateDraw ==
  <<"7", "k", "/", "8", "/", "8", "/", "8", "/", "8", "/", "8", "/", "8", "/", "K", "7", " ", "w", " ", "-", " ", "-", " ", "7", "2", " ", "2", "0", "0">>

\* the positions the make / unmake walk starts from
InitFens ==
  {FenShort, FenLong, FenBlackShort, FenPawn7, FenDouble, FenEnPassant, FenPinned, FenKnights,
   FenCastleInto}

\* the five scenario positions of the perft table
PerftFens == <<FenStart, FenKiwipete, FenEndgame, FenInCheck, FenPromote>>

\* the longest line of moves made and not yet unmade
MaxDepth == 2

(***************************************************************************)
(* The state machine.                                                      *)
(*   board      the Board object                                           *)
(*   last_op    the operation that produced the state                      *)
(*   ret        the value the last make_move returned                      *)
(*   snapshots  for every move made and not unmade: the board before it,   *)
(*              the move and what make_move returned (kept for the checks  *)
(*              only)                                                      *)
(*   restored   after unmake_move: the snapshot of the move it took back   *)
(*   legal      after legal_moves: the list returned                       *)
(*   reparsed   after a FEN round trip: the board built from fen()         *)
(*   perft      the perft driver: position, root moves, next move, count   *)
(*   asked      after pseudo_moves: the side asked for, the list returned  *)
(*              and whether the list came out of the move cache            *)
(***************************************************************************)
VARIABLES board, last_op, ret, snapshots, restored, legal, reparsed, perft, asked

vars == <<board, last_op, ret, snapshots, restored, legal, reparsed, perft, asked>>

perft_off == [pc |-> "off", fen |-> 0, moves |-> <<>>, idx |-> 0, total |-> 0]

Init ==
  /\ \E f \in InitFens : board = Board(f)
  /\ last_op = "construct"
  /\ ret = FALSE
  /\ snapshots = <<>>
  /\ restored = <<>>
  /\ legal = <<>>
  /\ reparsed = <<>>
  /\ perft = perft_off
  /\ asked = <<>>

\* legal_moves() and fen() are const and leave the board as it is: whatever can
\* follow them can follow the state they were called in, and leads to the same
\* state.  The walk goes on from that state.
observing == last_op \in {"legal", "fen"}

\* the caller takes a move from the list pseudo_moves returns (on a scratch
\* copy of the board, as legal_moves does) and makes it
MakeMove ==
  /\ board.fault = "none"
  /\ ~observing
  /\ Len(board.history) < MaxDepth
  /\ LET taken(move, made) ==
           /\ board' = made.board
           /\ ret' = made.valid
           /\ snapshots' = Append(snapshots,
                              [board |-> board, move |-> move, valid |-> made.valid])
         offered(gen) ==
           /\ gen.board.fault = "none"
           /\ \E i \in 1 .. Len(gen.moves) : taken(gen.moves[i], make_move(board, gen.moves[i]))
     IN  offered(pseudo_moves(board, INVALID_SIDE))
  /\ last_op' = "make"
  /\ restored' = <<>>
  /\ legal' = <<>>
  /\ reparsed' = <<>>
  /\ UNCHANGED <<perft, asked>>

\* pseudo_moves on a board that fails validate_board ends the run
GenerateFails ==
  /\ board.fault = "none"
  /\ ~observing
  /\ LET ended(gen) ==
           /\ gen.board.fault # "none"
           /\ board' = gen.board
     IN  ended(pseudo_moves(board, INVALID_SIDE))
  /\ last_op' = "pseudo"
  /\ ret' = FALSE
  /\ restored' = <<>>
  /\ legal' = <<>>
  /\ reparsed' = <<>>
  /\ UNCHANGED <<snapshots, perft, asked>>

UnmakeMove ==
  /\ board.fault = "none"
  /\ ~observing
  /\ board' = unmake_move(board)
  /\ last_op' = "unmake"
  /\ ret' = FALSE
  /\ IF snapshots = <<>>
       THEN /\ snapshots' = snapshots
            /\ restored' = <<>>
       ELSE /\ snapshots' = SubSeq(snapshots, 1, Len(snapshots) - 1)
            /\ restored' = <<[board |-> snapshots[Len(snapshots)].board,
                               move |-> snapshots[Len(snapshots)].move,
                               valid |-> snapshots[Len(snapshots)].valid,
                               direct |-> last_op = "make"]>>
  /\ legal' = <<>>
  /\ reparsed' = <<>>
  /\ UNCHANGED <<perft, asked>>

LegalMoves ==
  /\ board.fault = "none"
  /\ ~observing
  /\ LET listed(res) ==
           /\ legal' = res.moves
           /\ board' = IF res.fault = "none" THEN board ELSE fail(board, res.fault)
     IN  listed(legal_moves(board))
  /\ last_op' = "legal"
  /\ ret' = FALSE
  /\ restored' = <<>>
  /\ reparsed' = <<>>
  /\ UNCHANGED <<snapshots, perft, asked>>

\* fen() validates the board, renders it, and a second board is built from the text
FenRoundTrip ==
  /\ board.fault = "none"
  /\ ~observing
  /\ IF validate_board(board)
       THEN /\ reparsed' = <<Board(fen(board))>>
            /\ board' = board
       ELSE /\ reparsed' = <<>>
            /\ board' = fail(board, "assert")
  /\ last_op' = "fen"
  /\ ret' = FALSE
  /\ restored' = <<>>
  /\ legal' = <<>>
  /\ UNCHANGED <<snapshots, perft, asked>>

Next == MakeMove \/ GenerateFails \/ UnmakeMove \/ LegalMoves \/ FenRoundTrip

Spec == Init /\ [][Next]_vars

(***************************************************************************)
(* The perft driver: the legal moves of a scenario position, and for each  *)
(* of them the number of legal replies.                                    *)
(***************************************************************************)
PerftInit ==
  /\ \E k \in 1 .. Len(PerftFens) :
       /\ board = Board(PerftFens[k])
       /\ perft = [pc |-> "root", fen |-> k, moves |-> <<>>, idx |-> 1, total |-> 0]
  /\ last_op = "construct"
  /\ ret = FALSE
  /\ snapshots = <<>>
  /\ restored = <<>>
  /\ legal = <<>>
  /\ reparsed = <<>>
  /\ asked = <<>>

PerftRoot ==
  /\ perft.pc = "root"
  /\ board.fault = "none"
  /\ LET listed(res) ==
           /\ legal' = res.moves
           /\ perft' = [perft EXCEPT !.pc = "count", !.moves = res.moves]
           /\ board' = IF res.fault = "none" THEN board ELSE fail(board, res.fault)
     IN  listed(legal_moves(board))
  /\ last_op' = "legal"
  /\ UNCHANGED <<ret, snapshots, restored, reparsed, asked>>

\* make the next root move, count the legal replies, take the move back
PerftStep ==
  /\ perft.pc = "count"
  /\ board.fault = "none"
  /\ perft.idx <= Len(perft.moves)
  /\ LET counted(made, replies) ==
           /\ board' = IF replies.fault = "none" THEN unmake_move(made.board)
                       ELSE fail(made.board, replies.fault)
           /\ ret' = made.valid
           /\ legal' = replies.moves
           /\ perft' = [perft EXCEPT !.idx = perft.idx + 1,
                                     !.total = perft.total + Len(replies.moves)]
         replied(made) == counted(made, legal_moves(made.board))
     IN  replied(make_move(board, perft.moves[perft.idx]))
  /\ last_op' = "unmake"
  /\ UNCHANGED <<snapshots, restored, reparsed, asked>>

PerftDone ==
  /\ perft.pc = "count"
  /\ perft.idx > Len(perft.moves)
  /\ perft' = [perft EXCEPT !.pc = "done"]
  /\ UNCHANGED <<board, last_op, ret, snapshots, restored, legal, reparsed, asked>>

PerftNext == PerftRoot \/ PerftStep \/ PerftDone

SpecPerft == PerftInit /\ [][PerftNext]_vars


(***************************************************************************)
(* The move cache: a caller that asks one board for pseudo-moves, makes    *)
(* moves out of the lists it gets and takes moves back.                    *)
(***************************************************************************)
\* the positions the walk with the cache starts from
CacheFens == {FenLateDraw}

\* the longest line of moves made and not yet unmade in the walk with the cache
MaxCacheDepth == 4

CacheInit ==
  /\ \E f \in CacheFens : board = Board(f)
  /\ last_op = "construct"
  /\ ret = FALSE
  /\ snapshots = <<>>
  /\ restored = <<>>
  /\ legal = <<>>
  /\ reparsed = <<>>
  /\ perft = perft_off
  /\ asked = <<>>

\* pseudo_moves(side) on the board itself: the list returned, and the cache
\* entry the call leaves behind
CachePseudo ==
  /\ board.fault = "none"
  /\ \E side \in {WHITE, BLACK, INVALID_SIDE} :
       LET answered(res) ==
             /\ board' = res.board
             /\ asked' = <<[side |-> side, moves |-> res.moves,
                            cached |-> board.hash \in DOMAIN board.move_cache]>>
       IN  answered(pseudo_moves(board, side))
  /\ last_op' = "pseudo"
  /\ ret' = FALSE
  /\ restored' = <<>>
  /\ UNCHANGED <<snapshots, legal, reparsed, perft>>

\* the caller makes a move of the list its last pseudo_moves() call returned
CacheMake ==
  /\ board.fault = "none"
  /\ last_op = "pseudo"
  /\ asked # <<>>
  /\ asked[1].side = INVALID_SIDE
  /\ Len(board.history) < MaxCacheDepth
  /\ \E i \in 1 .. Len(asked[1].moves) :
       LET taken(move, result) ==
             /\ board' = result.board
             /\ ret' = result.valid
             /\ snapshots' = Append(snapshots,
                                [board |-> board, move |-> move, valid |-> result.valid])
       IN  taken(asked[1].moves[i], make_move(board, asked[1].moves[i]))
  /\ last_op' = "make"
  /\ restored' = <<>>
  /\ asked' = <<>>
  /\ UNCHANGED <<legal, reparsed, perft>>

\* the caller takes back the move it has just made, as legal_moves does
CacheUnmake ==
  /\ board.fault = "none"
  /\ last_op = "make"
  /\ snapshots # <<>>
  /\ board' = unmake_move(board)
  /\ last_op' = "unmake"
  /\ ret' = FALSE
  /\ snapshots' = SubSeq(snapshots, 1, Len(snapshots) - 1)
  /\ restored' = <<[board |-> snapshots[Len(snapshots)].board,
                    move |-> snapshots[Len(snapshots)].move,
                    valid |-> snapshots[Len(snapshots)].valid,
                    direct |-> TRUE]>>
  /\ asked' = <<>>
  /\ UNCHANGED <<legal, reparsed, perft>>

CacheNext == CachePseudo \/ CacheMake \/ CacheUnmake

SpecCache == CacheInit /\ [][CacheNext]_vars

(***************************************************************************)
(* The walk from a position that holds MAX_PIECE_FREQ pieces of one kind   *)
(* and a pawn of either side one step from promotion.                      *)
(***************************************************************************)
\* 7k/P7/8/8/NNNNN3/NNNNN3/6p1/K7 b - - 0 1  (ten white knights)
FenCrowded ==
  <<"7", "k", "/", "P", "7", "/", "8", "/", "8", "/", "N", "N", "N", "N", "N", "3", "/", "N", "N", "N", "N", "N", "3", "/", "6", "p", "1", "/", "K", "7", " ", "b", " ", "-", " ", "-", " ", "0", " ", "1">>

CrowdedInit ==
  /\ board = Board(FenCrowded)
  /\ last_op = "construct"
  /\ ret = FALSE
  /\ snapshots = <<>>
  /\ restored = <<>>
  /\ legal = <<>>
  /\ reparsed = <<>>
  /\ perft = perft_off
  /\ asked = <<>>

CrowdedNext == MakeMove \/ UnmakeMove

SpecCrowded == CrowdedInit /\ [][CrowdedNext]_vars

(***************************************************************************)
(* Play from the standard start position: the caller asks legal_moves for  *)
(* the moves, makes one of them, and may take moves back.                  *)
(***************************************************************************)
\* the moves the caller is willing to play, as <<from, to>>:
\* g2-g4, e2-e3, Bf1-d3, Ng1-h3, O-O for White; b7-b6, Bc8-b7, Bb7xh1, Bh1-b7
\* for Black
Repertoire ==
  {<<get_square_120_rc(1, 6), get_square_120_rc(3, 6)>>,
   <<get_square_120_rc(1, 4), get_square_120_rc(2, 4)>>,
   <<F1, get_square_120_rc(2, 3)>>,
   <<G1, get_square_120_rc(2, 7)>>,
   <<E1, G1>>,
   <<get_square_120_rc(6, 1), get_square_120_rc(5, 1)>>,
   <<get_square_120_rc(7, 2), get_square_120_rc(6, 1)>>,
   <<get_square_120_rc(6, 1), H1>>,
   <<H1, get_square_120_rc(6, 1)>>}

\* the longest line of moves made and not yet unmade in the play from the
\* start position
MaxLineDepth == 8

StartInit ==
  /\ board = Board(FenStart)
  /\ last_op = "construct"
  /\ ret = FALSE
  /\ snapshots = <<>>
  /\ restored = <<>>
  /\ legal = <<>>
  /\ reparsed = <<>>
  /\ perft = perft_off
  /\ asked = <<>>

\* legal_moves(), then make_move of one of the moves it returned; a check that
\* fails inside legal_moves ends the run there
StartMake ==
  /\ board.fault = "none"
  /\ Len(board.history) <= MaxLineDepth
  /\ LET taken(move, made) ==
           /\ board' = made.board
           /\ ret' = made.valid
           /\ snapshots' = Append(snapshots,
                              [board |-> board, move |-> move, valid |-> made.valid])
           /\ last_op' = "make"
         listed(res) ==
           /\ legal' = res.moves
           /\ IF res.fault # "none"
                THEN /\ board' = fail(board, res.fault)
                     /\ ret' = FALSE
                     /\ snapshots' = snapshots
                     /\ last_op' = "legal"
                ELSE /\ Len(board.history) < MaxLineDepth
                     /\ \E i \in 1 .. Len(res.moves) :
                          /\ <<move_from(res.moves[i]), move_to(res.moves[i])>> \in Repertoire
                          /\ taken(res.moves[i], make_move(board, res.moves[i]))
     IN  listed(legal_moves(board))
  /\ restored' = <<>>
  /\ reparsed' = <<>>
  /\ UNCHANGED <<perft, asked>>

StartNext == StartMake \/ UnmakeMove

SpecStart == StartInit /\ [][StartNext]_vars

(***************************************************************************)
(* Properties.                                                             *)
(***************************************************************************)
\* the fields make_move and unmake_move are to leave as they were
same_position(a, b) ==
  /\ a.pieces = b.pieces
  /\ a.next_move_colour = b.next_move_colour
  /\ a.castle_state = b.castle_state
  /\ a.en_passant = b.en_passant
  /\ a.fifty_move = b.fifty_move
  /\ a.half_move = b.half_move
  /\ a.hash = b.hash
  /\ Len(a.history) = Len(b.history)

\* the entries in use of the list of piece p
squares_of(b, p) == {b.positions[p][i] : i \in 1 .. b.num_pieces[p]}

\* an unmake_move that undid a make_move of this walk
undone == last_op = "unmake" /\ restored # <<>>

\* C1: make_move(m), for a pseudo-move m of a reachable board, followed by
\* unmake_move() fails no check and restores the piece array, the side to
\* move, castle_state, en_passant, fifty_move, half_move, the hash and the
\* history depth, whatever make_move returned.
MakeUnmakeRestores ==
  undone => (board.fault = "none" /\ same_position(board, restored[1].board))

\* a move that make_move rejected has been taken back
MakeUnmakeRestoresWitness ==
  /\ undone
  /\ ~restored[1].valid
  /\ same_position(board, restored[1].board)

\* C2: after construction and after every make_move (accepted or rejected)
\* and unmake_move the stored hash equals the full recomputation.
HashIsRecomputation == board.hash = compute_hash(board)

\* a rejected king move that gave up castle rights
HashIsRecomputationWitness ==
  /\ last_op = "make"
  /\ ~ret
  /\ board.castle_state # snapshots[Len(snapshots)].board.castle_state
  /\ board.hash = compute_hash(board)

lists_agree(b) ==
  \A p \in ValidPieces :
    /\ \A i, j \in 1 .. b.num_pieces[p] : i # j => b.positions[p][i] # b.positions[p][j]
    /\ \A i \in 1 .. b.num_pieces[p] : b.pieces[b.positions[p][i]] = p
    /\ \A sq \in ValidSquares : b.pieces[sq] = p => sq \in squares_of(b, p)
    /\ b.num_pieces[p] = Cardinality({sq \in ValidSquares : b.pieces[sq] = p})

\* C3: after construction and after every make_move and unmake_move, for every
\* piece p the first num_pieces[p] entries of positions[p] are pairwise
\* distinct, each names a square holding p, and every valid square holding p
\* is among them.
ListsAgreeWithPieces == lists_agree(board)

\* a capture has been made: an entry was removed from the middle of a list
ListsAgreeWithPiecesWitness ==
  /\ last_op = "make"
  /\ board.fault = "none"
  /\ move_captured(snapshots[Len(snapshots)].move)
  /\ \E p \in ValidPieces :
       /\ board.num_pieces[p] >= 1
       /\ board.num_pieces[p] < snapshots[Len(snapshots)].board.num_pieces[p]
       /\ board.positions[p] # SubSeq(snapshots[Len(snapshots)].board.positions[p],
                                      1, board.num_pieces[p])
  /\ lists_agree(board)

\* the pseudo-moves make_move accepts, in the order they were generated
accepted_pseudo_moves(b) ==
  LET accepted(m) == make_move(b, m).valid
  IN  SelectSeq(pseudo_moves(b, INVALID_SIDE).moves, accepted)

\* C4: legal_moves() returns exactly the moves of pseudo_moves() for which
\* make_move returns true, in the order pseudo_moves produced them.
LegalIsAcceptedPseudo ==
  (last_op = "legal" /\ board.fault = "none") => legal = accepted_pseudo_moves(board)

\* some pseudo-moves were kept and some were dropped
LegalIsAcceptedPseudoWitness ==
  /\ last_op = "legal"
  /\ board.fault = "none"
  /\ legal # <<>>
  /\ Len(legal) < Len(pseudo_moves(board, INVALID_SIDE).moves)

(***************************************************************************)
(* Attacks by the rules of chess, on ranks and files rather than mailbox   *)
(* offsets.                                                                *)
(***************************************************************************)
rank_of(sq) == (sq \div 10) - 2

file_of(sq) == (sq % 10) - 1

distance(x, y) == IF x < y THEN y - x ELSE x - y

direction(x, y) == IF x < y THEN 1 ELSE IF x > y THEN -1 ELSE 0

\* the squares strictly between two squares of one rank, file or diagonal are empty
clear_between(pieces, from, to) ==
  LET dr == direction(rank_of(from), rank_of(to))
      dc == direction(file_of(from), file_of(to))
      n == IF rank_of(from) = rank_of(to) THEN distance(file_of(from), file_of(to))
           ELSE distance(rank_of(from), rank_of(to))
  IN  \A t \in 1 .. (n - 1) : pieces[from + t * (10 * dr + dc)] = INVALID_PIECE

on_diagonal(from, to) ==
  from # to /\ distance(rank_of(from), rank_of(to)) = distance(file_of(from), file_of(to))

on_line(from, to) == from # to /\ (rank_of(from) = rank_of(to) \/ file_of(from) = file_of(to))

\* the piece on `from` attacks the square `to`
attacks(pieces, from, to) ==
  LET p == pieces[from]
      ranks == distance(rank_of(from), rank_of(to))
      files == distance(file_of(from), file_of(to))
  IN  \/ /\ p = WHITE_PAWN
         /\ rank_of(to) = rank_of(from) + 1
         /\ files = 1
      \/ /\ p = BLACK_PAWN
         /\ rank_of(to) = rank_of(from) - 1
         /\ files = 1
      \/ /\ p \in {WHITE_KNIGHT, BLACK_KNIGHT}
         /\ {ranks, files} = {1, 2}
      \/ /\ p \in {WHITE_BISHOP, BLACK_BISHOP, WHITE_QUEEN, BLACK_QUEEN}
         /\ on_diagonal(from, to)
         /\ clear_between(pieces, from, to)
      \/ /\ p \in {WHITE_ROOK, BLACK_ROOK, WHITE_QUEEN, BLACK_QUEEN}
         /\ on_line(from, to)
         /\ clear_between(pieces, from, to)
      \/ /\ p \in {WHITE_KING, BLACK_KING}
         /\ from # to
         /\ ranks <= 1
         /\ files <= 1

\* the king of the side that moved last is attacked by a piece of the side to move
mover_in_check(b) ==
  \E king_sq \in ValidSquares, from \in ValidSquares :
    /\ b.pieces[king_sq] = king_of(1 - b.next_move_colour)
    /\ valid_piece(b.pieces[from])
    /\ get_side(b.pieces[from]) = b.next_move_colour
    /\ attacks(b.pieces, from, king_sq)

\* C5: make_move returns true exactly when, after the move and the switch of
\* sides, the king of the side that moved is not attacked by the side to move;
\* after a move from legal_moves the mover is not in check.
ReturnIsKingSafety ==
  /\ (last_op = "make" /\ board.fault = "none") => (ret <=> ~mover_in_check(board))
  /\ (last_op = "legal" /\ board.fault = "none") =>
       \A i \in 1 .. Len(legal) : ~mover_in_check(make_move(board, legal[i]).board)

\* a move was rejected: it left the mover's king attacked
ReturnIsKingSafetyWitness ==
  /\ last_op = "make"
  /\ board.fault = "none"
  /\ ~ret
  /\ mover_in_check(board)

\* C6: in every state reached by make_move (of pseudo-moves) and unmake_move
\* each side has exactly one king, in num_pieces and on the board.
OneKingEach ==
  \A king \in {WHITE_KING, BLACK_KING} :
    /\ board.num_pieces[king] = 1
    /\ Cardinality({sq \in ValidSquares : board.pieces[sq] = king}) = 1

\* a pawn has promoted next to the kings' count
OneKingEachWitness ==
  /\ last_op = "make"
  /\ move_promoted(snapshots[Len(snapshots)].move)
  /\ board.num_pieces[WHITE_KING] = 1
  /\ board.num_pieces[BLACK_KING] = 1

\* the published node counts of the five scenario positions
PerftDepth1 == <<20, 48, 14, 6, 44>>

PerftDepth2 == <<400, 2039, 191, 264, 1486>>

\* C7: legal_moves() on the boards built from the five scenario positions
\* returns 20, 48, 14, 6 and 44 moves.
ScenarioMoveCounts ==
  perft.pc \in {"count", "done"} =>
    (board.fault = "none" /\ Len(perft.moves) = PerftDepth1[perft.fen])

\* the legal moves of Kiwipete have been listed
ScenarioMoveCountsWitness ==
  /\ perft.pc = "count"
  /\ perft.idx = 1
  /\ PerftFens[perft.fen] = FenKiwipete
  /\ Len(perft.moves) = 48

\* C8: the number of depth-2 leaves is 400 for the start position and 1486
\* for rnbq1k1r/pp1Pbppp/2p5/8/2B5/8/PPP1NnPP/RNBQK2R w KQ - 1 8.
ScenarioDepth2Leaves ==
  (perft.pc = "done" /\ PerftFens[perft.fen] \in {FenStart, FenPromote}) =>
    perft.total = PerftDepth2[perft.fen]

\* the lists a move can reorder when it is taken back: the captured piece's,
\* and the pawn's when it promoted
reordered(move, p) ==
  \/ move_captured(move) /\ p = captured_piece(move)
  \/ move_promoted(move) /\ p = moved_piece(move)

\* C9 (as stated): make_move(m) followed by unmake_move() leaves every
\* position list identical, entry by entry, captures and promotions included.
ListsIdenticalAfterUnmake ==
  (undone /\ restored[1].direct /\ board.fault = "none") =>
    \A p \in ValidPieces : board.positions[p] = restored[1].board.positions[p]

\* C9 (amended): make_move(m) followed by unmake_move() restores for every
\* piece the count and the set of squares of its list; when the two calls
\* follow one another the order of the entries is restored too, for every
\* list but the captured piece's and, after a promotion, the pawn's.
ListsSameSquaresAfterUnmake ==
  undone =>
    /\ board.fault = "none"
    /\ \A p \in ValidPieces :
         /\ board.num_pieces[p] = restored[1].board.num_pieces[p]
         /\ squares_of(board, p) = squares_of(restored[1].board, p)
         /\ (restored[1].direct /\ ~reordered(restored[1].move, p)) =>
              board.positions[p] = restored[1].board.positions[p]

\* a capture was taken back and the captured piece's list came back reordered
ListsSameSquaresAfterUnmakeWitness ==
  /\ undone
  /\ restored[1].direct
  /\ board.fault = "none"
  /\ move_captured(restored[1].move)
  /\ \E p \in ValidPieces :
       /\ board.positions[p] # restored[1].board.positions[p]
       /\ squares_of(board, p) = squares_of(restored[1].board, p)

\* C10: the board built from fen() of a reachable board (the side not to move
\* not in check) equals it in piece placement, side to move, castle rights,
\* fifty_move, half_move and hash.
FenRoundTripEqual ==
  (last_op = "fen" /\ reparsed # <<>>) =>
    /\ reparsed[1].fault = "none"
    /\ reparsed[1].pieces = board.pieces
    /\ reparsed[1].next_move_colour = board.next_move_colour
    /\ reparsed[1].castle_state = board.castle_state
    /\ reparsed[1].fifty_move = board.fifty_move
    /\ reparsed[1].half_move = board.half_move
    /\ reparsed[1].hash = board.hash

(***************************************************************************)
(* Castling.                                                               *)
(***************************************************************************)
\* a piece of `side` attacks the square, by the rules of chess
attacked_by(pieces, sq, side) ==
  \E from \in ValidSquares :
    /\ valid_piece(pieces[from])
    /\ get_side(pieces[from]) = side
    /\ attacks(pieces, from, sq)

\* the square of a first-rank square on the home rank of a side
home_square(sq, side) == IF side = WHITE THEN sq ELSE sq + (A8 - A1)

castle_right(side, flag) ==
  IF side = WHITE THEN (IF flag = SHORT_CASTLE_MOVE THEN WHITE_SHORT ELSE WHITE_LONG)
  ELSE (IF flag = SHORT_CASTLE_MOVE THEN BLACK_SHORT ELSE BLACK_LONG)

\* the squares between king and rook
castle_between(flag) == IF flag = SHORT_CASTLE_MOVE THEN {F1, G1} ELSE {D1, C1, B1}

\* the king's origin and the square it passes over
castle_transit(flag) == IF flag = SHORT_CASTLE_MOVE THEN {E1, F1} ELSE {E1, D1}

\* the king's origin, the square it passes over and its destination
castle_path(flag) == IF flag = SHORT_CASTLE_MOVE THEN {E1, F1, G1} ELSE {E1, D1, C1}

\* the right is held, no square of `safe` is attacked by the opponent and the
\* squares between king and rook are empty
may_castle(b, side, flag, safe) ==
  /\ has_right(b.castle_state, castle_right(side, flag))
  /\ \A sq \in safe : ~attacked_by(b.pieces, home_square(sq, side), 1 - side)
  /\ \A sq \in castle_between(flag) : b.pieces[home_square(sq, side)] = INVALID_PIECE

\* the castle moves among the moves pseudo_moves generates for a side
castles_among(moves) == {moves[i] : i \in {k \in 1 .. Len(moves) : move_castled(moves[k])}}

\* a board pseudo_moves generates moves for
generates(b) == b.fault = "none" /\ validate_board(b)

last_move == snapshots[Len(snapshots)].move

board_before == snapshots[Len(snapshots)].board

made == last_op = "make" /\ snapshots # <<>>

\* C12: a promotion or promote-capture move of pseudo_moves carries a queen,
\* rook, bishop or knight of the side that moves; after make_move of it the
\* destination holds a piece of the side that moved and that side has one
\* pawn fewer.
PromotesToOwnPiece ==
  (made /\ move_promoted(last_move)) =>
    /\ promoted_piece(last_move) \in
         {queen_of(board_before.next_move_colour), rook_of(board_before.next_move_colour),
          bishop_of(board_before.next_move_colour), knight_of(board_before.next_move_colour)}
    /\ board.pieces[move_to(last_move)] = promoted_piece(last_move)
    /\ get_side(board.pieces[move_to(last_move)]) = board_before.next_move_colour
    /\ board.num_pieces[pawn_of(board_before.next_move_colour)] + 1 =
         board_before.num_pieces[pawn_of(board_before.next_move_colour)]

(***************************************************************************)
(* Castle rights.                                                          *)
(***************************************************************************)
CastleRights == {WHITE_SHORT, WHITE_LONG, BLACK_SHORT, BLACK_LONG}

\* the rights a castle state holds
rights_of(state) == {bit \in CastleRights : has_right(state, bit)}

\* the rights tied to a home square
home_rights(sq) ==
  IF sq = E1 THEN {WHITE_SHORT, WHITE_LONG}
  ELSE IF sq = A1 THEN {WHITE_LONG}
  ELSE IF sq = H1 THEN {WHITE_SHORT}
  ELSE IF sq = E8 THEN {BLACK_SHORT, BLACK_LONG}
  ELSE IF sq = A8 THEN {BLACK_LONG}
  ELSE IF sq = H8 THEN {BLACK_SHORT}
  ELSE {}

is_king_or_rook(p) == p \in {WHITE_KING, BLACK_KING, WHITE_ROOK, BLACK_ROOK}

\* the rights a move made by `side` takes away
rights_lost(side, move) ==
  IF move_flag(move) \in {QUIET_MOVE, CAPTURE_MOVE} /\ is_king_or_rook(moved_piece(move))
    THEN home_rights(move_from(move))
  ELSE IF move_flag(move) \in {SHORT_CASTLE_MOVE, LONG_CASTLE_MOVE}
    THEN (IF side = WHITE THEN {WHITE_SHORT, WHITE_LONG} ELSE {BLACK_SHORT, BLACK_LONG})
  ELSE {}

\* C13: make_move of a quiet or capture move of a king or rook from a home
\* square takes away exactly the rights tied to that square, a castle move
\* takes away exactly both rights of the mover, and every other move leaves
\* castle_state as it was.
CastleRightsLostByHomeSquare ==
  (made /\ board.fault = "none") =>
    rights_of(board.castle_state) =
      rights_of(board_before.castle_state) \ rights_lost(board_before.next_move_colour, last_move)

\* a rook left its home square and took one right with it, the other stayed
CastleRightsLostByHomeSquareWitness ==
  /\ made
  /\ board.fault = "none"
  /\ move_flag(last_move) \in {QUIET_MOVE, CAPTURE_MOVE}
  /\ moved_piece(last_move) = BLACK_ROOK
  /\ move_from(last_move) = A8
  /\ has_right(board_before.castle_state, BLACK_LONG)
  /\ ~has_right(board.castle_state, BLACK_LONG)
  /\ has_right(board.castle_state, WHITE_SHORT)

(***************************************************************************)
(* The en-passant field.                                                   *)
(***************************************************************************)
\* the square a double pawn move of `side` jumps over
jumped_square(side, move) ==
  IF side = WHITE THEN move_from(move) + 10 ELSE move_from(move) - 10

\* C14: after make_move of a double pawn move en_passant is the square the
\* pawn jumped over (from + 10 for white, from - 10 for black); after
\* make_move of any other move it is INVALID_SQUARE.
EnPassantSetByDoubleMoveOnly ==
  (made /\ board.fault = "none") =>
    board.en_passant =
      IF move_flag(last_move) = DOUBLE_PAWN_MOVE
        THEN jumped_square(board_before.next_move_colour, last_move)
        ELSE INVALID_SQUARE

\* a double pawn move of black was made
EnPassantSetByDoubleMoveOnlyWitness ==
  /\ made
  /\ board.fault = "none"
  /\ move_flag(last_move) = DOUBLE_PAWN_MOVE
  /\ board_before.next_move_colour = BLACK
  /\ board.en_passant = move_from(last_move) - 10
  /\ valid_square(board.en_passant)

\* the square of the pawn that made the double move the field records
pushed_pawn_square(b) ==
  IF b.next_move_colour = WHITE THEN b.en_passant - 10 ELSE b.en_passant + 10

\* a pawn of the side to move stands beside the pawn that made the double
\* move, on a square from which it captures onto the en-passant square
capturer_beside(b) ==
  \E sq \in {pushed_pawn_square(b) - 1, pushed_pawn_square(b) + 1} :
    /\ valid_square(sq)
    /\ b.pieces[sq] = pawn_of(b.next_move_colour)

\* C15: after FEN construction and after every make_move and unmake_move,
\* whenever en_passant is not INVALID_SQUARE a pawn of the side to move stands
\* beside the pawn that just made its double move.
EnPassantHasCapturer ==
  (board.fault = "none" /\ board.en_passant # INVALID_SQUARE) => capturer_beside(board)

\* C16: whenever en_passant is not INVALID_SQUARE it is a playing square on
\* rank 6 when white is to move and on rank 3 when black is to move.
EnPassantOnRankOfMover ==
  board.en_passant # INVALID_SQUARE =>
    /\ valid_square(board.en_passant)
    /\ rank_of(board.en_passant) = (IF board.next_move_colour = WHITE THEN 5 ELSE 2)

\* a double pawn move of white left the field on rank 3 with black to move
EnPassantOnRankOfMoverWitness ==
  /\ made
  /\ move_flag(last_move) = DOUBLE_PAWN_MOVE
  /\ board.next_move_colour = BLACK
  /\ valid_square(board.en_passant)
  /\ rank_of(board.en_passant) = 2

(***************************************************************************)
(* The clocks.                                                             *)
(***************************************************************************)
\* the move takes a piece: a capture, an en-passant capture, a promote-capture
takes_piece(move) ==
  move_flag(move) \in {CAPTURE_MOVE, EN_PASSANT_MOVE, PROMOTE_CAPTURE_MOVE}

pawn_moved(move) == moved_piece(move) \in {WHITE_PAWN, BLACK_PAWN}

\* C17: make_move sets fifty_move to 0 when the move captures or moves a pawn
\* and to its previous value plus one otherwise, castling included; it adds
\* one to half_move; unmake_move restores both.
ClocksFollowMoves ==
  /\ (made /\ board.fault = "none") =>
       /\ board.fifty_move =
            IF takes_piece(last_move) \/ pawn_moved(last_move) THEN 0
            ELSE board_before.fifty_move + 1
       /\ board.half_move = board_before.half_move + 1
  /\ (undone /\ board.fault = "none") =>
       /\ board.fifty_move = restored[1].board.fifty_move
       /\ board.half_move = restored[1].board.half_move

\* a castle move was made on a board whose fifty_move was not 0, and counted
ClocksFollowMovesWitness ==
  /\ made
  /\ board.fault = "none"
  /\ move_castled(last_move)
  /\ board_before.fifty_move > 0
  /\ board.fifty_move = board_before.fifty_move + 1

(***************************************************************************)
(* The move cache.                                                         *)
(***************************************************************************)
\* pseudo_moves has just answered
answered == last_op = "pseudo" /\ asked # <<>>

\* C18: pseudo_moves on a board whose fifty_move > 75 or whose half_move >
\* 1000 returns an empty list, whatever calls came before.
HardDrawReturnsEmpty ==
  (answered /\ (board.fifty_move > 75 \/ board.half_move > 1000)) => asked[1].moves = <<>>

\* C19: the list pseudo_moves(side) returns is the list a generation without
\* the cache returns for the board and the side asked for.
CacheIsTransparent ==
  (answered /\ board.fault = "none") => asked[1].moves = gen_moves(board, asked[1].side)

(***************************************************************************)
(* Captures.                                                               *)
(***************************************************************************)
\* the pieces of a side a move may capture
capturable(side) ==
  IF side = WHITE THEN {WHITE_PAWN, WHITE_KNIGHT, WHITE_BISHOP, WHITE_ROOK, WHITE_QUEEN}
  ELSE {BLACK_PAWN, BLACK_KNIGHT, BLACK_BISHOP, BLACK_ROOK, BLACK_QUEEN}

moves_among(moves) == {moves[i] : i \in 1 .. Len(moves)}

\* a move of `side` takes what stands on its destination, and that is a piece
\* of the other side that is not the king, or it goes to an empty square
sound_destination(b, side, m) ==
  /\ captured_piece(m) \notin {WHITE_KING, BLACK_KING}
  /\ valid_square(move_to(m))
  /\ IF move_flag(m) \in {CAPTURE_MOVE, PROMOTE_CAPTURE_MOVE}
       THEN /\ b.pieces[move_to(m)] \in capturable(1 - side)
            /\ captured_piece(m) = b.pieces[move_to(m)]
       ELSE b.pieces[move_to(m)] = INVALID_PIECE

\* the king of the side to move is attacked
in_check(b) ==
  \E sq \in ValidSquares :
    /\ b.pieces[sq] = king_of(b.next_move_colour)
    /\ attacked_by(b.pieces, sq, 1 - b.next_move_colour)

\* C20: no move pseudo_moves returns captures a king: a capture or
\* promote-capture goes to a square that holds a piece of the other side that
\* is not its king, and every other move goes to an empty playing square.
NoKingIsCaptured ==
  generates(board) =>
    \A side \in {WHITE, BLACK} :
      \A m \in moves_among(gen_moves(board, side)) : sound_destination(board, side, m)

\* a move out of pseudo_moves gave check: the side that moved attacks the
\* king, and its moves on this board do not take it
NoKingIsCapturedWitness ==
  /\ made
  /\ ret
  /\ board.fault = "none"
  /\ in_check(board)
  /\ \A m \in moves_among(gen_moves(board, 1 - board.next_move_colour)) :
       board.pieces[move_to(m)] # king_of(board.next_move_colour)
  /\ \E m \in moves_among(gen_moves(board, 1 - board.next_move_colour)) :
       move_flag(m) = CAPTURE_MOVE

(***************************************************************************)
(* square_attacked.                                                        *)
(***************************************************************************)
\* the pieces of a side
pieces_of(side) == capturable(side) \cup {king_of(side)}

\* the squares of the piece array that hold a piece of a side
squares_held(pieces, side) == {from \in ValidSquares : pieces[from] \in pieces_of(side)}

\* a piece on one of the squares `held` attacks sq, by the rules of chess
attacked_from(pieces, held, sq) == \E from \in held : attacks(pieces, from, sq)

pushed_record(taken) ==
  [move |-> taken.move, castle_state |-> taken.board.castle_state,
   en_passant |-> taken.board.en_passant, fifty_move |-> taken.board.fifty_move,
   hash |-> taken.board.hash]

\* C22: the depth of the history stack is the number of make_move calls less
\* the number of unmake_move calls (snapshots holds one entry for every
\* make_move not yet unmade, rejected moves included), the stack holds the
\* records of exactly these calls, latest on top, and half_move less the depth
\* is the half_move the constructor set.
HistoryDepthIsUnmatchedMakes ==
  board.fault = "none" =>
    /\ Len(board.history) = Len(snapshots)
    /\ \A i \in 1 .. Len(snapshots) : board.history[i] = pushed_record(snapshots[i])
    /\ snapshots # <<>> =>
         /\ snapshots[1].board.history = <<>>
         /\ board.half_move - Len(board.history) = snapshots[1].board.half_move
    /\ undone =>
         board.half_move - Len(board.history)
           = restored[1].board.half_move - Len(restored[1].board.history)

\* a rejected make_move has pushed the second record of the stack
HistoryDepthIsUnmatchedMakesWitness ==
  /\ made
  /\ ~ret
  /\ board.fault = "none"
  /\ Len(board.history) = 2
  /\ board.history[2] = pushed_record(snapshots[2])
  /\ board.history[2].fifty_move = 1

(***************************************************************************)
(* unmake_move on an empty history.                                        *)
(***************************************************************************)
\* C23: unmake_move on a board with an empty history ends in the error
\* outcome, and the board it was called on is left as it was: pieces, piece
\* lists, side to move, castle rights, en-passant square, clocks and hash.
UnmakeOnEmptyHistoryIsFatal ==
  [][(board.fault = "none" /\ board.history = <<>> /\ last_op' = "unmake")
       => (board'.fault = "assert" /\ [board' EXCEPT !.fault = "none"] = board)]_vars

\* unmake_move has been called on an empty history: after construction, or
\* after every move made had been taken back
UnmakeOnEmptyHistoryIsFatalWitness ==
  /\ last_op = "unmake"
  /\ board.fault = "assert"
  /\ board.history = <<>>
  /\ snapshots = <<>>
  /\ board.hash = compute_hash(board)

(***************************************************************************)
(* The bound of the piece lists.                                           *)
(***************************************************************************)
\* C24: no piece list ever holds more than MAX_PIECE_FREQ squares, and
\* add_piece never writes past the last entry of a list.
PieceListsStayInBounds ==
  /\ board.fault # "overflow"
  /\ \A p \in ValidPieces : board.num_pieces[p] <= MAX_PIECE_FREQ

(***************************************************************************)
(* Castle rights and the home squares.                                     *)
(***************************************************************************)
\* the side a castle right belongs to
right_side(bit) == IF bit \in {WHITE_SHORT, WHITE_LONG} THEN WHITE ELSE BLACK

\* the corner of the rook of a castle right
rook_corner(bit) ==
  IF bit = WHITE_SHORT THEN H1
  ELSE IF bit = WHITE_LONG THEN A1
  ELSE IF bit = BLACK_SHORT THEN H8
  ELSE A8

\* every right of the castle state has its king and its rook at home
pieces_at_home(b) ==
  \A bit \in rights_of(b.castle_state) :
    /\ b.pieces[home_square(E1, right_side(bit))] = king_of(right_side(bit))
    /\ b.pieces[rook_corner(bit)] = rook_of(right_side(bit))

\* the rook square a castle move has filled holds a rook of the mover
castled_own_rook ==
  (made /\ move_castled(last_move)) =>
    board.pieces[castle_squares(board_before.next_move_colour, move_flag(last_move)).rt]
      = rook_of(board_before.next_move_colour)

\* C25: whenever a castle right is set, the king of that side stands on its
\* home square and the rook of that side on the corner of the right, so that
\* a castle move moves the mover's own rook.
CastleRightsHavePiecesAtHome ==
  board.fault = "none" => (pieces_at_home(board) /\ castled_own_rook)

(***************************************************************************)
(* Play from the start position.                                           *)
(***************************************************************************)
\* C26: in play from the standard start position by moves of legal_moves, no
\* check of a primitive fails: not within legal_moves, not in make_move and
\* not in the unmake_move that takes a move back.
StartPlayFailsNoCheck ==
  (last_op = "legal" \/ made \/ undone) => board.fault = "none"

(***************************************************************************)
(* half_move and the fullmove number.                                      *)
(***************************************************************************)
\* the last field of a FEN text: the fullmove number as written
last_field(f) ==
  LET k == CHOOSE i \in 1 .. Len(f) : f[i] = " " /\ \A j \in (i + 1) .. Len(f) : f[j] # " "
  IN  SubSeq(f, k + 1, Len(f))

\* the fullmove number fen() writes
rendered_fullmove(b) == to_digits(b.half_move \div 2)

\* C27: half_move mod 2 is the side to move (0 white, 1 black); the fullmove
\* number fen() renders is the one the constructor parsed, right after
\* construction, and a make_move raises it by one exactly when Black moved.
HalfMoveParityIsSide ==
  board.fault = "none" =>
    /\ board.half_move % 2 = board.next_move_colour
    /\ last_op = "construct" =>
         \E f \in InitFens : board = Board(f) /\ rendered_fullmove(board) = last_field(f)
    /\ made =>
         board.half_move \div 2
           = (board_before.half_move \div 2)
               + (IF board_before.next_move_colour = BLACK THEN 1 ELSE 0)

\* Black has completed the second move of a line: the fullmove number went
\* from 1 to 2, after White's move had left it at 1
HalfMoveParityIsSideWitness ==
  /\ made
  /\ ret
  /\ board.fault = "none"
  /\ Len(snapshots) = 2
  /\ snapshots[1].board.next_move_colour = WHITE
  /\ rendered_fullmove(snapshots[1].board) = <<"1">>
  /\ rendered_fullmove(board_before) = <<"1">>
  /\ rendered_fullmove(board) = <<"2">>
  /\ board.next_move_colour = WHITE

=============================================================================
